---------------------------- MODULE Spec2Model ----------------------------
(***************************************************************************)
(* BackVault (tgrecojr/backvault): the versioned encrypted-backup envelope *)
(* (src/src/bw_client.py encrypt_data, src/src/decrypt.py decrypt_data),   *)
(* the retry-with-backoff decorator and the argument redaction of the      *)
(* Bitwarden CLI wrapper (src/src/bw_client.py).                           *)
(*                                                                         *)
(* Bytes are naturals 0..255, byte strings are sequences of bytes, Python  *)
(* str values are sequences of code points.  The cryptographic library     *)
(* calls are modelled as ideal primitives:                                 *)
(*  - a key-derivation call returns a symbolic key, a record of the        *)
(*    algorithm, its parameters, the salt and the secret as the algorithm  *)
(*    sees it (PBKDF2 keys HMAC with the password, and HMAC zero-pads a    *)
(*    key shorter than its block, RFC 2104);                               *)
(*  - AES-GCM is an ideal AEAD: the variable aead holds every              *)
(*    (key, nonce, ciphertext||tag, plaintext) that an encryption has      *)
(*    produced, and a decryption succeeds exactly on those.                *)
(***************************************************************************)
EXTENDS Integers, Sequences, FiniteSets, TLC

\* ---------------------------------------------------------------- bounds
\* Longest plaintext drawn, in bytes.
MaxPlainLen == 1
\* Longest free-form (not built by an encryption) input drawn, in bytes.
MaxRawLen == 4
\* Largest max_attempts the retry decorator is built with.
MaxAttempts == 6
\* Longest argument list redacted.
MaxArgs == 4
\* Most components of a backup path passed to _validate_backup_path.
MaxPathLen == 4
\* Most client method calls made on one BitwardenClient.
MaxCalls == 3

\* ------------------------------------------------------ program constants
SALT_SIZE == 16
KEY_SIZE == 32
NONCE_SIZE == 12
TAG_SIZE == 16
VERSION_SIZE == 4
PBKDF2_ITERATIONS == 600000
ARGON2_TIME_COST == 3
ARGON2_MEMORY_COST == 65536
ARGON2_PARALLELISM == 4
ENCRYPTION_VERSION == 2
\* argon2-cffi refuses a salt shorter than 8 bytes with HashingError.
ARGON2_MIN_SALT == 8
\* AESGCM refuses a nonce shorter than 8 bytes with ValueError (the nonce
\* slice is never longer than 12 bytes).
AESGCM_MIN_NONCE == 8

\* ----------------------------------------------------------- input sets
\* The passwords drawn, as code points: "", "\0", "a", "a\0" and U+00E9
\* (two UTF-8 bytes).
Passwords == { <<>>, <<0>>, <<97>>, <<97, 0>>, <<233>> }
PlainBytes == {0, 255}
\* Values os.urandom can return for every byte of one draw.
RandomBytes == {17, 238}
\* Bits a tampering flips.
TamperBits == {0, 7}
\* Bytes of the free-form inputs: 0x00, 0x01, 0x02, "a".
RawBytes == {0, 1, 2, 97}
\* Version numbers written over the header of an envelope.
OtherVersions == {0, 1, 2, 3, 999}

\* base_delay and max_delay values the retry decorator is built with
\* (seconds; 2 and 30 are the defaults).
BaseDelays == {1, 2, 3}
MaxDelays == {5, 30}
\* Arguments of the command lines redacted.
Args == {"bw", "login", "unlock", "--password", "--raw", "hunter2"}

\* Path components, as code points: "app", "bk", "etc", "..", "ln" (a name
\* that may be a symbolic link), and the file names "a.enc", "a!.enc" and
\* "a.enc\n".
c_app == <<97, 112, 112>>
c_bk == <<98, 107>>
c_etc == <<101, 116, 99>>
c_dotdot == <<46, 46>>
c_ln == <<108, 110>>
c_a_enc == <<97, 46, 101, 110, 99>>
c_bang_enc == <<97, 33, 46, 101, 110, 99>>
c_nl_enc == <<97, 46, 101, 110, 99, 10>>
Components == {c_app, c_bk, c_etc, c_dotdot, c_ln, c_a_enc, c_bang_enc, c_nl_enc}
\* Allowed base directories: /app/bk, and a directory named like a backup.
Bases == { <<c_app, c_bk>>, <<c_app, c_a_enc>> }
\* Symbolic links of the file system: none, or /app/bk/ln -> /etc.
LinkSets == { {}, {[at |-> <<c_app, c_bk, c_ln>>, to |-> <<c_etc>>]} }

\* The secrets of a run: master password, file-encryption password (as
\* text and as code points), API client secret, and the session tokens the
\* tool may print.
master_pw == "masterpw"
file_pw == "filepw"
file_pw_chars == <<102, 105, 108, 101, 112, 119>>
client_secret == "apisecret"
Tokens == {"tokA", "tokB"}
Secrets == {master_pw, file_pw, client_secret} \cup Tokens
\* Why the tool refused a login or unlock command: a passing condition
\* (network, server) or a rejection of the credentials.
FailureKinds == {"transient", "rejected"}
\* What bw status may print on exit 0, as code points: " {}\n", "" and "{".
StatusOutputs == { <<32, 123, 125, 10>>, <<>>, <<123>> }
\* The email argument of login().
Emails == {"user@example.com", "--raw"}
\* The vault contents the tool prints on export, as code points: "{}".
raw_json_str == <<123, 125>>
\* The backup_file arguments of the export methods, under /app/bk.
ExportFiles == { <<c_app, c_bk, c_a_enc>>, <<c_dotdot, c_app, c_bk, c_a_enc>>,
                 <<c_app, c_dotdot, c_etc, c_a_enc>>, <<c_app, c_bk, c_bang_enc>> }
allowed_dir == <<c_app, c_bk>>

\* -------------------------------------------------------------- helpers
Min(a, b) == IF a <= b THEN a ELSE b

Pow2(n) == 2 ^ n

\* All sequences over S of length at most n.
SeqsUpTo(S, n) == UNION { [1..k -> S] : k \in 0..n }

\* n copies of byte b.
Fill(b, n) == [i \in 1..n |-> b]

\* Python's s[a:b] for 0 <= a <= b: clipped to the length, never an error.
Slice(s, a, b) == SubSeq(s, a + 1, Min(b, Len(s)))

\* int.from_bytes(b, byteorder="big"); the empty string gives 0.
RECURSIVE from_bytes(_)
from_bytes(b) ==
    IF b = <<>> THEN 0
    ELSE from_bytes(SubSeq(b, 1, Len(b) - 1)) * 256 + b[Len(b)]

\* n.to_bytes(4, byteorder="big") for 0 <= n < 2^31.
to_bytes4(n) ==
    << (n \div 16777216) % 256, (n \div 65536) % 256, (n \div 256) % 256, n % 256 >>

\* str.encode("utf-8") for code points below U+0800.
RECURSIVE encode_utf8(_)
encode_utf8(s) ==
    IF s = <<>> THEN <<>>
    ELSE LET c == s[1]
             head == IF c < 128 THEN <<c>>
                     ELSE <<192 + (c \div 64), 128 + (c % 64)>>
         IN head \o encode_utf8(SubSeq(s, 2, Len(s)))

\* byte b with bit k flipped (b ^ (1 << k)).
FlipBit(b, k) ==
    IF (b \div Pow2(k)) % 2 = 1 THEN b - Pow2(k) ELSE b + Pow2(k)

\* ------------------------------------------------- ideal key derivation
\* HMAC pads a key shorter than the 64-byte block with zero bytes, so the
\* key HMAC works with is the password without its trailing zero bytes
\* (every password drawn is shorter than the block).
RECURSIVE HmacKey(_)
HmacKey(k) ==
    IF k # <<>> /\ k[Len(k)] = 0 THEN HmacKey(SubSeq(k, 1, Len(k) - 1)) ELSE k

\* PBKDF2HMAC(SHA256, length, salt, iterations).derive(key_material).
PBKDF2HMAC_derive(length, salt, iterations, key_material) ==
    [ok |-> TRUE,
     key |-> [alg |-> "PBKDF2-HMAC-SHA256", secret |-> HmacKey(key_material),
              salt |-> salt, cost |-> <<iterations>>, len |-> length]]

\* argon2.low_level.hash_secret_raw(..., type=Type.ID).
hash_secret_raw(secret, salt, time_cost, memory_cost, parallelism, hash_len) ==
    IF Len(salt) < ARGON2_MIN_SALT
    THEN [ok |-> FALSE, key |-> <<>>]
    ELSE [ok |-> TRUE,
          key |-> [alg |-> "Argon2id", secret |-> secret, salt |-> salt,
                   cost |-> <<time_cost, memory_cost, parallelism>>,
                   len |-> hash_len]]

\* ------------------------------------------------------- ideal AES-GCM
\* AESGCM(key).encrypt(nonce, data, None): len(data) ciphertext bytes then
\* the 16-byte tag; pad stands for the key stream and tag the cipher
\* produces under this key and nonce.
AESGCM_encrypt(key, nonce, data, pad) ==
    [i \in 1..(Len(data) + TAG_SIZE) |->
        IF i <= Len(data) THEN (data[i] + pad) % 256 ELSE pad]

\* AESGCM(key).decrypt(nonce, data, None) against the encryptions made so far.
AESGCM_decrypt(table, key, nonce, data) ==
    IF Len(nonce) < AESGCM_MIN_NONCE
    THEN [kind |-> "ValueError_nonce", data |-> <<>>]
    ELSE IF Len(data) < TAG_SIZE
    THEN [kind |-> "InvalidTag", data |-> <<>>]
    ELSE LET hits == { e \in table : e.key = key /\ e.nonce = nonce /\ e.ct = data }
         IN IF hits = {}
            THEN [kind |-> "InvalidTag", data |-> <<>>]
            ELSE [kind |-> "ok", data |-> (CHOOSE e \in hits : TRUE).pt]

\* ------------------------------------------------------------- decrypt.py
\* version_num = int.from_bytes(encrypted_data[:4], byteorder="big")
version_num_of(encrypted_data) == from_bytes(Slice(encrypted_data, 0, VERSION_SIZE))

\* salt = encrypted_data[offset:offset+SALT_SIZE]
salt_of(encrypted_data) ==
    Slice(encrypted_data, VERSION_SIZE, VERSION_SIZE + SALT_SIZE)

\* nonce = encrypted_data[offset+SALT_SIZE:offset+SALT_SIZE+12]
nonce_of(encrypted_data) ==
    Slice(encrypted_data, VERSION_SIZE + SALT_SIZE,
          VERSION_SIZE + SALT_SIZE + NONCE_SIZE)

\* ciphertext_with_tag = encrypted_data[offset+SALT_SIZE+12:]
ciphertext_with_tag_of(encrypted_data) ==
    Slice(encrypted_data, VERSION_SIZE + SALT_SIZE + NONCE_SIZE, Len(encrypted_data))

\* Mutant: the legacy branch derives the key as the current one does.
kdf_of_version_no_legacy(version_num) ==
    IF version_num = 1 \/ version_num = 2 THEN "argon2id" ELSE "none"

\* Mutant: an unknown version falls through to the current derivation.
kdf_of_version_default(version_num) ==
    IF version_num = 1 THEN "pbkdf2" ELSE "argon2id"

\* The if/elif/else on version_num: which derivation runs, "none" for the
\* ValueError branch.
kdf_of_version(version_num) ==
    IF version_num = 1 THEN "pbkdf2"
    ELSE IF version_num = 2 THEN "argon2id"
    ELSE "none"

\* The key derivation of the branch taken.
derive_key(kdf, password, salt) ==
    IF kdf = "pbkdf2"
    THEN PBKDF2HMAC_derive(KEY_SIZE, salt, PBKDF2_ITERATIONS, encode_utf8(password))
    ELSE hash_secret_raw(encode_utf8(password), salt, ARGON2_TIME_COST,
                         ARGON2_MEMORY_COST, ARGON2_PARALLELISM, KEY_SIZE)

\* Mutant: a failed tag check is swallowed and an empty plaintext returned.
decrypt_data_swallow(table, encrypted_data, password) ==
    LET kdf == kdf_of_version(version_num_of(encrypted_data))
        k == derive_key(kdf, password, salt_of(encrypted_data))
        r == AESGCM_decrypt(table, k.key, nonce_of(encrypted_data),
                            ciphertext_with_tag_of(encrypted_data))
    IN IF kdf = "none"
       THEN [kind |-> "ValueError_version", data |-> <<>>, kdf |-> "none",
             aead |-> FALSE]
       ELSE IF ~k.ok
       THEN [kind |-> "HashingError", data |-> <<>>, kdf |-> kdf, aead |-> FALSE]
       ELSE [kind |-> IF r.kind = "InvalidTag" THEN "ok" ELSE r.kind,
             data |-> r.data, kdf |-> kdf, aead |-> TRUE]

\* decrypt_data(encrypted_data, password): the value returned or the
\* exception raised (kind), which derivation ran (kdf) and whether the
\* AEAD decryption was reached (aead).
decrypt_data(table, encrypted_data, password) ==
    LET version_num == version_num_of(encrypted_data)
        salt == salt_of(encrypted_data)
        nonce == nonce_of(encrypted_data)
        ciphertext_with_tag == ciphertext_with_tag_of(encrypted_data)
        kdf == kdf_of_version(version_num)
    IN IF kdf = "none"
       THEN [kind |-> "ValueError_version", data |-> <<>>, kdf |-> "none",
             aead |-> FALSE]
       ELSE LET k == derive_key(kdf, password, salt)
            IN IF ~k.ok
               THEN [kind |-> "HashingError", data |-> <<>>, kdf |-> kdf,
                     aead |-> FALSE]
               ELSE LET r == AESGCM_decrypt(table, k.key, nonce, ciphertext_with_tag)
                    IN [kind |-> r.kind, data |-> r.data, kdf |-> kdf, aead |-> TRUE]

\* ----------------------------------------------------------- bw_client.py
\* BitwardenClient.encrypt_data(data, password) with the two os.urandom
\* draws (salt, nonce) and the cipher's output under them (pad):
\* the envelope returned and the encryption it adds to the ideal AEAD.
encrypt_key(password, salt) ==
    hash_secret_raw(encode_utf8(password), salt, ARGON2_TIME_COST,
                    ARGON2_MEMORY_COST, ARGON2_PARALLELISM, KEY_SIZE).key

\* Mutant: the header regresses to the legacy version.
encrypt_version_legacy == to_bytes4(1)

\* version = ENCRYPTION_VERSION.to_bytes(4, byteorder="big")
encrypt_version == to_bytes4(ENCRYPTION_VERSION)

encrypt_data(data, password, salt, nonce, pad) ==
    LET version == encrypt_version
        key == encrypt_key(password, salt)
        ciphertext == AESGCM_encrypt(key, nonce, data, pad)
    IN [out |-> version \o salt \o nonce \o ciphertext,
        entry |-> [key |-> key, nonce |-> nonce, ct |-> ciphertext, pt |-> data]]

\* tests/test_encryption.py _encrypt_data_v1: the legacy (version 1) layout.
encrypt_data_v1(data, password, salt, nonce, pad) ==
    LET version == to_bytes4(1)
        key == PBKDF2HMAC_derive(KEY_SIZE, salt, PBKDF2_ITERATIONS,
                                 encode_utf8(password)).key
        ciphertext == AESGCM_encrypt(key, nonce, data, pad)
    IN [out |-> version \o salt \o nonce \o ciphertext,
        entry |-> [key |-> key, nonce |-> nonce, ct |-> ciphertext, pt |-> data]]

\* ---------------------------------------- bw_client.py retry_with_backoff
\* for attempt in range(max_attempts): the loop body runs for this attempt.
in_range(attempt, max_attempts) == attempt < max_attempts

\* Mutant: no attempt is taken for the last one.
is_last_attempt_never(attempt, max_attempts) == FALSE

\* if attempt == max_attempts - 1
is_last_attempt(attempt, max_attempts) == attempt = max_attempts - 1

\* Mutant: the delay grows linearly and is never capped.
delay_linear(base_delay, max_delay, attempt) == base_delay * (attempt + 1)

\* delay = min(base_delay * (2**attempt), max_delay)
delay_of(base_delay, max_delay, attempt) ==
    Min(base_delay * (2 ^ attempt), max_delay)

\* Mutant: exhaustion raises a new BitwardenError in place of the caught one.
reraise_wrapped(e) == [kind |-> "BitwardenError", id |-> 0]

\* The bare raise in the except block: the exception being handled, itself.
reraise(e) == e

\* Mutant: an error of another type leaves the wrapper as a BitwardenError.
propagate_as_bitwarden(e) == [kind |-> "BitwardenError", id |-> e.id]

\* An error that except BitwardenError does not match leaves the wrapper
\* as it is.
propagate(e) == e

\* raise last_exception after the loop: with no attempt made last_exception
\* is None, and raising None is a TypeError.
raise_last(last_exception) ==
    IF last_exception = 0
    THEN [kind |-> "TypeError", id |-> 0]
    ELSE [kind |-> "BitwardenError", id |-> last_exception]

\* --------------------------------- bw_client.py _redact_sensitive_args
REDACTED == "***REDACTED***"
sensitive_flags == {"--password", "--raw"}
sensitive_commands == {"unlock"}

\* The for loop from index i (1-based) on, with the skip_next flag and the
\* list built so far.
RECURSIVE redact_loop(_, _, _, _)
redact_loop(cmd, i, skip_next, redacted) ==
    IF i > Len(cmd) THEN redacted
    ELSE IF skip_next
    THEN redact_loop(cmd, i + 1, FALSE, Append(redacted, REDACTED))
    ELSE IF cmd[i] \in sensitive_flags
    THEN redact_loop(cmd, i + 1, TRUE, Append(redacted, cmd[i]))
    ELSE IF cmd[i] \in sensitive_commands /\ i < Len(cmd)
    THEN redact_loop(cmd, i + 1, TRUE, Append(redacted, cmd[i]))
    ELSE redact_loop(cmd, i + 1, FALSE, Append(redacted, cmd[i]))

_redact_sensitive_args(cmd) == redact_loop(cmd, 1, FALSE, <<>>)

\* --------------------------------- bw_client.py _validate_backup_path
\* An absolute path is the sequence of its components.
\* Path(p).resolve(): ".." steps to the parent (the root is its own
\* parent), and a prefix that is a symbolic link is replaced by its target.
RECURSIVE resolve_from(_, _, _)
resolve_from(lnks, acc, rest) ==
    IF rest = <<>> THEN acc
    ELSE LET c == rest[1]
             stepped == IF c = c_dotdot
                        THEN (IF acc = <<>> THEN acc ELSE SubSeq(acc, 1, Len(acc) - 1))
                        ELSE Append(acc, c)
             hit == { l \in lnks : l.at = stepped }
             landed == IF hit = {} THEN stepped ELSE (CHOOSE l \in hit : TRUE).to
         IN resolve_from(lnks, landed, SubSeq(rest, 2, Len(rest)))

resolve(lnks, p) == resolve_from(lnks, <<>>, p)

\* backup_path.relative_to(allowed_path) does not raise ValueError:
\* allowed_path's components start backup_path's.
relative_to_ok(backup_path, allowed_path) ==
    /\ Len(allowed_path) <= Len(backup_path)
    /\ SubSeq(backup_path, 1, Len(allowed_path)) = allowed_path

\* backup_path.name: the last component, "" for the root.
name_of(backup_path) ==
    IF backup_path = <<>> THEN <<>> ELSE backup_path[Len(backup_path)]

\* The character class [a-zA-Z0-9._-].
safe_char(ch) ==
    \/ ch \in 97..122
    \/ ch \in 65..90
    \/ ch \in 48..57
    \/ ch \in {46, 95, 45}

\* Mutant: the pattern is searched for, not anchored (one safe character
\* is enough).
name_is_safe_unanchored(filename) ==
    \E i \in 1..Len(filename) : safe_char(filename[i])

\* re.match(r"^[a-zA-Z0-9._-]+$", filename): one or more safe characters
\* up to the end, where $ also matches just before one trailing newline.
name_is_safe(filename) ==
    LET core == IF filename # <<>> /\ filename[Len(filename)] = 10
                THEN SubSeq(filename, 1, Len(filename) - 1)
                ELSE filename
    IN /\ core # <<>>
       /\ \A i \in 1..Len(core) : safe_char(core[i])

\* filename.endswith(".enc")
ends_with_enc(filename) ==
    /\ Len(filename) >= 4
    /\ SubSeq(filename, Len(filename) - 3, Len(filename)) = <<46, 101, 110, 99>>

\* Mutant: the candidate is compared as given, without resolving it.
backup_path_unresolved(lnks, backup_file) == backup_file

\* backup_path = Path(backup_file).resolve()
backup_path_of(lnks, backup_file) == resolve(lnks, backup_file)

\* allowed_path = Path(allowed_base).resolve()
allowed_path_of(lnks, allowed_base) == resolve(lnks, allowed_base)

\* _validate_backup_path(backup_file, allowed_base): the path returned, or
\* which BitwardenError is raised.
_validate_backup_path(lnks, backup_file, allowed_base) ==
    LET backup_path == backup_path_of(lnks, backup_file)
        allowed_path == allowed_path_of(lnks, allowed_base)
        filename == name_of(backup_path)
    IN IF ~relative_to_ok(backup_path, allowed_path)
       THEN [kind |-> "InvalidBackupPath", path |-> <<>>]
       ELSE IF ~name_is_safe(filename)
       THEN [kind |-> "InvalidFilenameChars", path |-> <<>>]
       ELSE IF ~ends_with_enc(filename)
       THEN [kind |-> "InvalidFilenameExt", path |-> <<>>]
       ELSE [kind |-> "ok", path |-> backup_path]

\* ------------------------------------------- bw_client.py BitwardenClient
\* self.session = None
None == "None"

\* The decorator arguments of login and unlock, and the default max_delay.
LOGIN_MAX_ATTEMPTS == 3
UNLOCK_MAX_ATTEMPTS == 3
BASE_DELAY == 2
MAX_DELAY == 30

\* The bw tool: which commands can exit with status 0 in which state. A
\* command that exits with another status leaves the tool's state alone.
bw_login_possible(t) == t = "LoggedOut"
bw_unlock_possible(t) == t \in {"LoggedIn", "Unlocked"}
bw_logout_possible(t) == t # "LoggedOut"
bw_export_possible(t, sess) == t = "Unlocked" /\ sess # None

\* str(backup_path) as a command-line argument.
path_str(backup_path) ==
    IF backup_path = <<c_app, c_bk, c_a_enc>> THEN "/app/bk/a.enc" ELSE "/other"

\* Mutant: logout leaves self.session as it is.
session_kept_on_logout(sess) == sess

\* logout: self.session = None
session_after_logout(sess) == None

\* Mutant: API-key login stores a token.
session_stored_by_api_login(sess) == "tokA"

\* login, API-key branch: self.session is not assigned.
session_after_api_login(sess) == sess

\* Mutant: unlock keeps the token it had.
session_stale_after_unlock(stdout, sess) == sess

\* unlock: self.session = result.stdout.strip()
session_after_unlock(stdout, sess) == stdout

\* login: cmd = [self.bw_cmd, "login", "--apikey"]
login_apikey_cmd == <<"bw", "login", "--apikey">>

\* login, email branch: full_cmd of _run for cmd = ["login", email] +
\* ["--password", password] + ["--raw"]
login_email_cmd(email, password) ==
    <<"bw", "login", email, "--password", password, "--raw">>

\* unlock: cmd = [self.bw_cmd, "unlock", password, "--raw"]
unlock_cmd(password) == <<"bw", "unlock", password, "--raw">>

\* unlock: safe_cmd = [self.bw_cmd, "unlock", "***REDACTED***", "--raw"]
unlock_safe_cmd == <<"bw", "unlock", REDACTED, "--raw">>

\* logout: full_cmd of _run for cmd = ["logout"]
logout_cmd == <<"bw", "logout">>

\* export_raw_encrypted: full_cmd of _run
export_raw_cmd == <<"bw", "export", "--format", "json", "--raw">>

\* export_bitwarden_encrypted: full_cmd of _run
export_bitwarden_cmd(validated_path, pw) ==
    <<"bw", "export", "--output", path_str(validated_path), "--format", "json",
      "--password", pw>>

\* ------------------------------------------------------------------ state
VARIABLES
    \* envelope codec: the inputs, the bytes handed to decrypt_data and its outcome
    cpc,             \* "start", "built", "done"
    plain,           \* the plaintext encrypted
    encPw,           \* the password it is encrypted with
    decPw,           \* the password decrypt_data is called with
    encrypted_data,  \* the bytes decrypt_data is called on
    built,           \* how they were made: "none", "v2", "v1", "raw"
    salt0,           \* the salt drawn by the encryption
    nonce0,          \* the nonce drawn by the encryption
    change,          \* what was done to the envelope afterwards
    aead,            \* the ideal AEAD's encryptions
    result,          \* decrypt_data's outcome
    \* retry_with_backoff: one call of a decorated function
    rpc,             \* "idle", "loop", "returned", "raised"
    max_attempts,    \* the decorator's parameters
    base_delay,
    max_delay,
    attempt,         \* the loop variable
    calls,           \* what each invocation of the wrapped function did
    sleeps,          \* the argument of each time.sleep, in order
    last_exception,  \* 0 for None, else the invocation whose error it holds
    outcome,         \* what the wrapper returned or raised
    \* _redact_sensitive_args: one call
    dpc,             \* "idle", "start", "done"
    cmd,             \* the argument list passed
    safe_cmd,        \* the list returned
    \* _validate_backup_path: one call
    vpc,             \* "idle", "start", "done"
    backup_file,     \* the candidate path
    allowed_base,    \* the allowed base directory
    links,           \* the symbolic links of the file system
    created,         \* the paths created or opened
    vres,            \* the path returned or the error raised
    \* BitwardenClient: one instance and the bw tool it drives
    tool,            \* the tool's session: "LoggedOut", "LoggedIn", "Unlocked"
    session,         \* self.session
    use_api_key,     \* self.use_api_key
    call,            \* the client method called last and how far it is
    ncalls,          \* the number of client method calls made
    log,             \* the command lines written to the log
    written,         \* the backup files written
    \* run.py main: one backup run
    mpc,             \* where main is: "idle" when no run is modelled
    encryption_mode, \* "raw" or "bitwarden"
    steps,           \* the steps main has started, in order
    failed_step,     \* the step that failed, "none" if none has
    pending,         \* the exception main is leaving the try block with
    exit_status,     \* how main ended: "running" until it has
    main_log,        \* the messages main has logged
    \* encrypt_data called again and again on one plaintext and password
    outs,            \* the envelopes returned, in order
    used,            \* the values os.urandom has returned
    \* run.py main, from its start to the constructed client
    kpc,             \* main's position
    environ,         \* os.environ: the variables that are set
    backup_dir,      \* what validate_backup_dir returned
    invoked,         \* the tool commands run so far
    made,            \* the directories and files created so far
    run_status       \* "running", or the exception that ended main

codecVars == <<cpc, plain, encPw, decPw, encrypted_data, built, salt0, nonce0,
               change, aead, result>>

\* The codec's variables other than the table of encryptions made.
codecRest == <<cpc, plain, encPw, decPw, encrypted_data, built, salt0, nonce0,
               change, result>>

retryVars == <<rpc, max_attempts, base_delay, max_delay, attempt, calls, sleeps,
               last_exception, outcome>>

redactVars == <<dpc, cmd, safe_cmd>>

pathVars == <<vpc, backup_file, allowed_base, links, created, vres>>

clientVars == <<tool, session, use_api_key, call, ncalls, log, written>>

mainVars == <<mpc, encryption_mode, steps, failed_step, pending, exit_status,
              main_log>>

vars == <<cpc, plain, encPw, decPw, encrypted_data, built, salt0, nonce0,
          change, aead, result,
          rpc, max_attempts, base_delay, max_delay, attempt, calls, sleeps,
          last_exception, outcome,
          dpc, cmd, safe_cmd,
          vpc, backup_file, allowed_base, links, created, vres,
          tool, session, use_api_key, call, ncalls, log, written,
          mpc, encryption_mode, steps, failed_step, pending, exit_status,
          main_log, outs, used,
          kpc, environ, backup_dir, invoked, made, run_status>>

freshVars == <<outs, used>>

configVars == <<kpc, environ, backup_dir, invoked, made, run_status>>

NoChange == [kind |-> "none", at |-> 0, bit |-> 0]
NoResult == [kind |-> "none", data |-> <<>>, kdf |-> "none", aead |-> FALSE]

NoOutcome == [kind |-> "none", id |-> 0]

\* The parts of the state a specification does not exercise.
FreshIdle ==
    /\ outs = <<>>
    /\ used = {}

ConfigIdle ==
    /\ kpc = "idle"
    /\ environ = <<>>
    /\ backup_dir = <<>>
    /\ invoked = {}
    /\ made = {}
    /\ run_status = "running"

CodecIdle ==
    /\ cpc = "idle"
    /\ plain = <<>>
    /\ encPw = <<>>
    /\ decPw = <<>>
    /\ encrypted_data = <<>>
    /\ built = "none"
    /\ salt0 = <<>>
    /\ nonce0 = <<>>
    /\ change = NoChange
    /\ aead = {}
    /\ result = NoResult

RetryIdle ==
    /\ rpc = "idle"
    /\ max_attempts = 0
    /\ base_delay = 0
    /\ max_delay = 0
    /\ attempt = 0
    /\ calls = <<>>
    /\ sleeps = <<>>
    /\ last_exception = 0
    /\ outcome = NoOutcome

RedactIdle ==
    /\ dpc = "idle"
    /\ cmd = <<>>
    /\ safe_cmd = <<>>

NoValidation == [kind |-> "none", path |-> <<>>]

PathIdle ==
    /\ vpc = "idle"
    /\ backup_file = <<>>
    /\ allowed_base = <<>>
    /\ links = {}
    /\ created = {}
    /\ vres = NoValidation

\* No client method has been called.
NoCall == [op |-> "none", status |-> "none", n |-> 0, pre_tool |-> "LoggedOut",
           pre_session |-> None, email |-> "", msg |-> "", stdout |-> "",
           why |-> "",
           stage |-> "", slept |-> <<>>, path |-> NoValidation]

ClientIdle ==
    /\ tool = "LoggedOut"
    /\ session = None
    /\ use_api_key = FALSE
    /\ call = NoCall
    /\ ncalls = 0
    /\ log = {}
    /\ written = {}

MainIdle ==
    /\ mpc = "idle"
    /\ encryption_mode = "raw"
    /\ steps = <<>>
    /\ failed_step = "none"
    /\ pending = "none"
    /\ exit_status = "running"
    /\ main_log = {}

CodecStart ==
    /\ cpc = "start"
    /\ plain \in SeqsUpTo(PlainBytes, MaxPlainLen)
    /\ encPw \in Passwords
    /\ decPw \in Passwords
    /\ encrypted_data = <<>>
    /\ built = "none"
    /\ salt0 = <<>>
    /\ nonce0 = <<>>
    /\ change = NoChange
    /\ aead = {}
    /\ result = NoResult

\* encrypt_data(plain, encPw): a version 2 envelope.
Encrypt ==
    /\ cpc = "start"
    /\ \E s \in RandomBytes, n \in RandomBytes, pad \in RandomBytes :
         LET e == encrypt_data(plain, encPw, Fill(s, SALT_SIZE), Fill(n, NONCE_SIZE), pad)
         IN /\ encrypted_data' = e.out
            /\ aead' = aead \cup {e.entry}
            /\ salt0' = Fill(s, SALT_SIZE)
            /\ nonce0' = Fill(n, NONCE_SIZE)
    /\ built' = "v2"
    /\ cpc' = "built"
    /\ UNCHANGED <<plain, encPw, decPw, change, result>>
    /\ UNCHANGED <<retryVars, redactVars, pathVars, clientVars, mainVars,
                   freshVars, configVars>>

\* _encrypt_data_v1(plain, encPw): a version 1 (legacy) envelope.
EncryptV1 ==
    /\ cpc = "start"
    /\ \E s \in RandomBytes, n \in RandomBytes, pad \in RandomBytes :
         LET e == encrypt_data_v1(plain, encPw, Fill(s, SALT_SIZE), Fill(n, NONCE_SIZE), pad)
         IN /\ encrypted_data' = e.out
            /\ aead' = aead \cup {e.entry}
            /\ salt0' = Fill(s, SALT_SIZE)
            /\ nonce0' = Fill(n, NONCE_SIZE)
    /\ built' = "v1"
    /\ cpc' = "built"
    /\ UNCHANGED <<plain, encPw, decPw, change, result>>
    /\ UNCHANGED <<retryVars, redactVars, pathVars, clientVars, mainVars,
                   freshVars, configVars>>

\* An input that no encryption produced (b"", b"abc", b"\x01", a bare
\* 4-byte header, ...).
RawInput ==
    /\ cpc = "start"
    /\ encrypted_data' \in SeqsUpTo(RawBytes, MaxRawLen)
    /\ built' = "raw"
    /\ cpc' = "built"
    /\ UNCHANGED <<plain, encPw, decPw, salt0, nonce0, change, aead, result>>
    /\ UNCHANGED <<retryVars, redactVars, pathVars, clientVars, mainVars,
                   freshVars, configVars>>

\* One bit of the salt, nonce or ciphertext||tag region is flipped.
Tamper ==
    /\ cpc = "built"
    /\ built \in {"v1", "v2"}
    /\ change = NoChange
    /\ \E i \in (VERSION_SIZE + 1)..Len(encrypted_data), k \in TamperBits :
         /\ encrypted_data' =
                [encrypted_data EXCEPT ![i] = FlipBit(encrypted_data[i], k)]
         /\ change' = [kind |-> "flip", at |-> i - 1, bit |-> k]
    /\ UNCHANGED <<cpc, plain, encPw, decPw, built, salt0, nonce0, aead, result>>
    /\ UNCHANGED <<retryVars, redactVars, pathVars, clientVars, mainVars,
                   freshVars, configVars>>

\* The version header is overwritten: (v).to_bytes(4, "big") + encrypted[4:].
ReplaceVersion ==
    /\ cpc = "built"
    /\ built \in {"v1", "v2"}
    /\ change = NoChange
    /\ \E v \in OtherVersions :
         /\ v # version_num_of(encrypted_data)
         /\ encrypted_data' =
                to_bytes4(v) \o Slice(encrypted_data, VERSION_SIZE, Len(encrypted_data))
         /\ change' = [kind |-> "version", at |-> 0, bit |-> v]
    /\ UNCHANGED <<cpc, plain, encPw, decPw, built, salt0, nonce0, aead, result>>
    /\ UNCHANGED <<retryVars, redactVars, pathVars, clientVars, mainVars,
                   freshVars, configVars>>

\* The envelope is cut to its first n bytes.
Truncate ==
    /\ cpc = "built"
    /\ built \in {"v1", "v2"}
    /\ change = NoChange
    /\ \E n \in 0..(Len(encrypted_data) - 1) :
         /\ encrypted_data' = Slice(encrypted_data, 0, n)
         /\ change' = [kind |-> "cut", at |-> n, bit |-> 0]
    /\ UNCHANGED <<cpc, plain, encPw, decPw, built, salt0, nonce0, aead, result>>
    /\ UNCHANGED <<retryVars, redactVars, pathVars, clientVars, mainVars,
                   freshVars, configVars>>

\* decrypt_data(encrypted_data, decPw).
Decrypt ==
    /\ cpc = "built"
    /\ result' = decrypt_data(aead, encrypted_data, decPw)
    /\ cpc' = "done"
    /\ UNCHANGED <<plain, encPw, decPw, encrypted_data, built, salt0, nonce0,
                   change, aead>>
    /\ UNCHANGED <<retryVars, redactVars, pathVars, clientVars, mainVars,
                   freshVars, configVars>>

CodecNext ==
    \/ Encrypt
    \/ EncryptV1
    \/ RawInput
    \/ Tamper
    \/ ReplaceVersion
    \/ Truncate
    \/ Decrypt

CodecInit ==
    CodecStart /\ RetryIdle /\ RedactIdle /\ PathIdle /\ ClientIdle /\ MainIdle
    /\ FreshIdle /\ ConfigIdle

SpecCodec == CodecInit /\ [][CodecNext]_vars

\* ------------------------------------------- retry_with_backoff.wrapper
\* A decorated function is called: the decorator's parameters are drawn.
RetryStart ==
    /\ rpc = "loop"
    /\ max_attempts \in 0..MaxAttempts
    /\ base_delay \in BaseDelays
    /\ max_delay \in MaxDelays
    /\ attempt = 0
    /\ calls = <<>>
    /\ sleeps = <<>>
    /\ last_exception = 0
    /\ outcome = NoOutcome

\* return func(*args, **kwargs): the invocation returns a value.
CallReturns ==
    /\ rpc = "loop"
    /\ in_range(attempt, max_attempts)
    /\ calls' = Append(calls, "ok")
    /\ outcome' = [kind |-> "return", id |-> Len(calls) + 1]
    /\ rpc' = "returned"
    /\ UNCHANGED <<max_attempts, base_delay, max_delay, attempt, sleeps,
                   last_exception>>
    /\ UNCHANGED <<codecVars, redactVars, pathVars, clientVars, mainVars,
                   freshVars, configVars>>

\* The invocation raises BitwardenError before the last attempt: the error
\* is kept, the delay computed and slept, and the loop goes on.
CallFailsRetry ==
    /\ rpc = "loop"
    /\ in_range(attempt, max_attempts)
    /\ ~is_last_attempt(attempt, max_attempts)
    /\ calls' = Append(calls, "BitwardenError")
    /\ last_exception' = Len(calls) + 1
    /\ sleeps' = Append(sleeps, delay_of(base_delay, max_delay, attempt))
    /\ attempt' = attempt + 1
    /\ UNCHANGED <<rpc, max_attempts, base_delay, max_delay, outcome>>
    /\ UNCHANGED <<codecVars, redactVars, pathVars, clientVars, mainVars,
                   freshVars, configVars>>

\* The invocation raises BitwardenError on the last attempt: re-raised.
CallFailsLast ==
    /\ rpc = "loop"
    /\ in_range(attempt, max_attempts)
    /\ is_last_attempt(attempt, max_attempts)
    /\ calls' = Append(calls, "BitwardenError")
    /\ last_exception' = Len(calls) + 1
    /\ outcome' = reraise([kind |-> "BitwardenError", id |-> Len(calls) + 1])
    /\ rpc' = "raised"
    /\ UNCHANGED <<max_attempts, base_delay, max_delay, attempt, sleeps>>
    /\ UNCHANGED <<codecVars, redactVars, pathVars, clientVars, mainVars,
                   freshVars, configVars>>

\* The invocation raises an error that is no BitwardenError: the except
\* clause does not match and the error leaves the wrapper.
CallOtherError ==
    /\ rpc = "loop"
    /\ in_range(attempt, max_attempts)
    /\ calls' = Append(calls, "OtherError")
    /\ outcome' = propagate([kind |-> "OtherError", id |-> Len(calls) + 1])
    /\ rpc' = "raised"
    /\ UNCHANGED <<max_attempts, base_delay, max_delay, attempt, sleeps,
                   last_exception>>
    /\ UNCHANGED <<codecVars, redactVars, pathVars, clientVars, mainVars,
                   freshVars, configVars>>

\* The loop ends without a return or a raise: raise last_exception.
LoopFallsThrough ==
    /\ rpc = "loop"
    /\ ~in_range(attempt, max_attempts)
    /\ outcome' = raise_last(last_exception)
    /\ rpc' = "raised"
    /\ UNCHANGED <<max_attempts, base_delay, max_delay, attempt, calls, sleeps,
                   last_exception>>
    /\ UNCHANGED <<codecVars, redactVars, pathVars, clientVars, mainVars,
                   freshVars, configVars>>

RetryNext ==
    \/ CallReturns
    \/ CallFailsRetry
    \/ CallFailsLast
    \/ CallOtherError
    \/ LoopFallsThrough

RetryInit ==
    CodecIdle /\ RetryStart /\ RedactIdle /\ PathIdle /\ ClientIdle /\ MainIdle
    /\ FreshIdle /\ ConfigIdle

SpecRetry == RetryInit /\ [][RetryNext]_vars

\* ------------------------------------------------ _redact_sensitive_args
RedactStart ==
    /\ dpc = "start"
    /\ cmd \in SeqsUpTo(Args, MaxArgs)
    /\ safe_cmd = <<>>

\* safe_cmd = self._redact_sensitive_args(full_cmd)
Redact ==
    /\ dpc = "start"
    /\ safe_cmd' = _redact_sensitive_args(cmd)
    /\ dpc' = "done"
    /\ UNCHANGED cmd
    /\ UNCHANGED <<codecVars, retryVars, pathVars, clientVars, mainVars,
                   freshVars, configVars>>

RedactNext == Redact

RedactInit ==
    CodecIdle /\ RetryIdle /\ RedactStart /\ PathIdle /\ ClientIdle /\ MainIdle
    /\ FreshIdle /\ ConfigIdle

SpecRedact == RedactInit /\ [][RedactNext]_vars

\* ------------------------------------------------- _validate_backup_path
PathStart ==
    /\ vpc = "start"
    /\ backup_file \in SeqsUpTo(Components, MaxPathLen)
    /\ allowed_base \in Bases
    /\ links \in LinkSets
    /\ created = {}
    /\ vres = NoValidation

\* validated_path = self._validate_backup_path(backup_file, allowed_dir):
\* the function touches no file.
Validate ==
    /\ vpc = "start"
    /\ vres' = _validate_backup_path(links, backup_file, allowed_base)
    /\ vpc' = "done"
    /\ UNCHANGED <<backup_file, allowed_base, links, created>>
    /\ UNCHANGED <<codecVars, retryVars, redactVars, clientVars, mainVars,
                   freshVars, configVars>>

PathNext == Validate

PathInit ==
    CodecIdle /\ RetryIdle /\ RedactIdle /\ PathStart /\ ClientIdle /\ MainIdle
    /\ FreshIdle /\ ConfigIdle

SpecPath == PathInit /\ [][PathNext]_vars


\* ------------------------------------------------------- envelope claims
\* The version header of the bytes read as a big-endian number (inputs of
\* at least 4 bytes).
HeaderValue ==
    encrypted_data[1] * 16777216 + encrypted_data[2] * 65536
        + encrypted_data[3] * 256 + encrypted_data[4]

\* decrypt_data was called on an envelope exactly as an encryption built it.
Untouched == cpc = "done" /\ built \in {"v1", "v2"} /\ change = NoChange

\* C1: decrypting an untouched version-1 or version-2 envelope with the
\* password it was built with returns exactly the plaintext, and the key
\* derivation used is the one of the envelope's version.
C1_RoundTrip ==
    (Untouched /\ decPw = encPw) =>
        /\ result.kind = "ok"
        /\ result.data = plain
        /\ result.kdf = (IF built = "v1" THEN "pbkdf2" ELSE "argon2id")
        /\ HeaderValue = (IF built = "v1" THEN 1 ELSE 2)

\* A legacy envelope of the empty plaintext under the empty password decrypts.
C1_Witness ==
    /\ Untouched
    /\ built = "v1"
    /\ plain = <<>>
    /\ encPw = <<>>
    /\ decPw = <<>>
    /\ result.kind = "ok"
    /\ result.kdf = "pbkdf2"

\* C2: after one bit of the salt, nonce or ciphertext||tag region of an
\* envelope is flipped, decrypt_data with the right password raises
\* InvalidTag and returns nothing.
C2_TamperDetected ==
    (cpc = "done" /\ built \in {"v1", "v2"} /\ change.kind = "flip" /\ decPw = encPw) =>
        /\ result.kind = "InvalidTag"
        /\ result.data = <<>>
        /\ result.aead

\* A flipped salt bit of a version-2 envelope is rejected by the tag check.
C2_Witness ==
    /\ cpc = "done"
    /\ built = "v2"
    /\ change.kind = "flip"
    /\ change.at >= 4
    /\ change.at < 20
    /\ decPw = encPw
    /\ Len(plain) = 1
    /\ result.kind = "InvalidTag"

\* C3 (as claimed): decrypting an untouched envelope of version 1 or 2 with
\* any password other than the one it was built with raises InvalidTag and
\* returns nothing.
C3_WrongPasswordFails ==
    (Untouched /\ decPw # encPw) =>
        /\ result.kind = "InvalidTag"
        /\ result.data = <<>>

\* C4: an input whose 4-byte version field is neither 1 nor 2 is refused
\* with the unsupported-version ValueError; no key derivation and no AEAD
\* decryption is attempted.
C4_VersionDispatch ==
    (cpc = "done" /\ Len(encrypted_data) >= 4 /\ HeaderValue \notin {1, 2}) =>
        /\ result.kind = "ValueError_version"
        /\ result.kdf = "none"
        /\ ~result.aead

\* The header of an envelope was overwritten with 999 and decrypt_data refused it.
C4_Witness ==
    /\ cpc = "done"
    /\ change.kind = "version"
    /\ change.bit = 999
    /\ Len(encrypted_data) >= 48
    /\ HeaderValue = 999
    /\ result.kind = "ValueError_version"

\* C5 (as claimed): an input of fewer than 4 bytes fails with a
\* malformed-envelope error, which is neither the unsupported-version error
\* nor the authentication error (nor a crypto library's own error).
C5_ShortInputMalformed ==
    (cpc = "done" /\ Len(encrypted_data) < 4) =>
        /\ result.kind = "MalformedEnvelopeError"
        /\ result.kind \notin {"ok", "ValueError_version", "InvalidTag"}

\* C6 (as claimed): an input with version 1 or 2 and fewer than 48 bytes
\* fails with a malformed-envelope error at parsing, before any key
\* derivation, and never with the authentication error.
C6_TruncatedMalformed ==
    (cpc = "done" /\ Len(encrypted_data) >= 4 /\ Len(encrypted_data) < 48
        /\ HeaderValue \in {1, 2}) =>
        /\ result.kind # "InvalidTag"
        /\ result.kdf = "none"
        /\ result.kind = "MalformedEnvelopeError"

\* C7: the output of encrypt_data is the 4-byte big-endian version 2, the
\* 16-byte salt, the 12-byte nonce and ciphertext||tag, back to back:
\* 4 + 16 + 12 + len(plaintext) + 16 bytes, at least 48.
C7_EnvelopeLayout ==
    (built = "v2" /\ change = NoChange) =>
        /\ Len(encrypted_data) = 4 + 16 + 12 + Len(plain) + 16
        /\ Len(encrypted_data) >= 48
        /\ SubSeq(encrypted_data, 1, 4) = <<0, 0, 0, 2>>
        /\ SubSeq(encrypted_data, 5, 20) = salt0
        /\ SubSeq(encrypted_data, 21, 32) = nonce0
        /\ Len(salt0) = 16
        /\ Len(nonce0) = 12
        /\ \E e \in aead :
             /\ e.ct = SubSeq(encrypted_data, 33, Len(encrypted_data))
             /\ e.pt = plain
             /\ e.nonce = nonce0
             /\ e.key.salt = salt0
             /\ e.key.alg = "Argon2id"

\* encrypt_data returned the 49-byte envelope of a one-byte plaintext.
C7_Witness ==
    /\ cpc = "built"
    /\ built = "v2"
    /\ change = NoChange
    /\ Len(plain) = 1
    /\ Len(encrypted_data) = 49


\* ----------------------------------------------------------- retry claims
\* Every invocation made so far raised BitwardenError.
AllFailed == \A i \in 1..Len(calls) : calls[i] = "BitwardenError"

\* C8: with max_attempts >= 1 and an operation that raises BitwardenError
\* on every call, the wrapper ends by raising, after exactly max_attempts
\* invocations, the very exception the last invocation raised.
C8_RetryExhaustion ==
    /\ (max_attempts >= 1 /\ AllFailed) => Len(calls) <= max_attempts
    /\ (max_attempts >= 1 /\ AllFailed /\ rpc = "loop") => Len(calls) < max_attempts
    /\ (max_attempts >= 1 /\ AllFailed /\ rpc # "loop") =>
          /\ rpc = "raised"
          /\ Len(calls) = max_attempts
          /\ outcome = [kind |-> "BitwardenError", id |-> max_attempts]

\* Three attempts (the decorator's default) all failed and the third
\* invocation's error was raised.
C8_Witness ==
    /\ rpc = "raised"
    /\ max_attempts = 3
    /\ calls = <<"BitwardenError", "BitwardenError", "BitwardenError">>
    /\ outcome = [kind |-> "BitwardenError", id |-> 3]

\* The delays of base_delay=2, max_delay=30.
DefaultSchedule == <<2, 4, 8, 16, 30, 30, 30, 30>>

\* C9: the i-th sleep (after failed attempt i-1) is the smaller of
\* base_delay * 2^(i-1) and max_delay; no delay exceeds max_delay, the
\* delays never decrease, and for base_delay=2, max_delay=30 they are
\* 2, 4, 8, 16, 30, 30, ...
C9_BackoffSchedule ==
    /\ \A i \in 1..Len(sleeps) :
          /\ sleeps[i] <= max_delay
          /\ sleeps[i] <= base_delay * Pow2(i - 1)
          /\ sleeps[i] = max_delay \/ sleeps[i] = base_delay * Pow2(i - 1)
          /\ calls[i] = "BitwardenError"
    /\ \A i \in 2..Len(sleeps) : sleeps[i - 1] <= sleeps[i]
    /\ (base_delay = 2 /\ max_delay = 30) =>
          sleeps = SubSeq(DefaultSchedule, 1, Len(sleeps))

\* With the defaults, five failures have been slept after: 2, 4, 8, 16, 30.
C9_Witness ==
    /\ base_delay = 2
    /\ max_delay = 30
    /\ sleeps = <<2, 4, 8, 16, 30>>

\* ------------------------------------------------------- redaction claim
\* C10 (as claimed): every argument that immediately follows an occurrence
\* of --password, --raw or unlock in the input is replaced by the marker.
C10_PositionalRedaction ==
    dpc = "done" =>
        /\ Len(safe_cmd) = Len(cmd)
        /\ \A i \in 2..Len(cmd) :
              cmd[i - 1] \in {"--password", "--raw", "unlock"} =>
                  safe_cmd[i] = "***REDACTED***"


\* --------------------------------------------------------- BitwardenClient
\* The client after __init__: session is the constructor's argument, an
\* existing token of an unlocked tool or None; the tool may have been left
\* logged in by an earlier process.
ClientStart ==
    /\ \/ session = None /\ tool \in {"LoggedOut", "LoggedIn"}
       \/ session \in Tokens /\ tool = "Unlocked"
    /\ use_api_key \in BOOLEAN
    /\ call = NoCall
    /\ ncalls = 0
    /\ log = {}
    /\ written = {}

\* A method may be called: none is running and calls remain.
CanCall == call.status # "running" /\ ncalls < MaxCalls

\* The record of a method entered now.
Started(o) ==
    [NoCall EXCEPT !.op = o, !.status = "running", !.pre_tool = tool,
                   !.pre_session = session]

\* wrapper, except BitwardenError: the last attempt re-raises, an earlier
\* one sleeps delay seconds and goes round the loop.
after_failure(c, max, m) ==
    IF is_last_attempt(c.n, max)
    THEN [c EXCEPT !.n = c.n + 1, !.status = "failed", !.msg = reraise(m)]
    ELSE [c EXCEPT !.n = c.n + 1,
                   !.slept = Append(c.slept, delay_of(BASE_DELAY, MAX_DELAY, c.n))]

\* The same, with the tool's reason for the failure noted; the code does
\* not look at it.
after_tool_failure(c, max, m, reason) ==
    [after_failure(c, max, m) EXCEPT !.why = reason]

\* wrapper: return func(*args, **kwargs)
after_success(c, out) ==
    [c EXCEPT !.n = c.n + 1, !.status = "ok", !.stdout = out]

\* logout(): _run(["logout"]) and, if it returned, self.session = None.
logout_result(t, sess, ok) ==
    [tool |-> IF ok THEN "LoggedOut" ELSE t,
     session |-> IF ok THEN session_after_logout(sess) ELSE sess]

\* login(...) / __enter__: the retry wrapper is entered.
CallLogin ==
    /\ CanCall
    /\ \E em \in Emails :
          /\ use_api_key => em = "user@example.com"
          /\ call' = [Started("login") EXCEPT !.email = IF use_api_key THEN "" ELSE em]
    /\ ncalls' = ncalls + 1
    /\ UNCHANGED <<tool, session, use_api_key, log, written>>
    /\ UNCHANGED <<codecVars, retryVars, redactVars, pathVars, mainVars,
                   freshVars, configVars>>

\* One attempt of login in API-key mode: bw login --apikey, and after a
\* failure the clean-up logout (its own failure swallowed) and the raise.
LoginApiKey ==
    /\ call.op = "login" /\ call.status = "running" /\ use_api_key
    /\ in_range(call.n, LOGIN_MAX_ATTEMPTS)
    /\ \E ok \in BOOLEAN, lo \in BOOLEAN :
          /\ ok => bw_login_possible(tool) /\ ~lo
          /\ lo => bw_logout_possible(tool)
          /\ IF ok
             THEN /\ tool' = "LoggedIn"
                  /\ session' = session_after_api_login(session)
                  /\ log' = log
                  /\ call' = after_success(call, "")
             ELSE /\ tool' = logout_result(tool, session, lo).tool
                  /\ session' = logout_result(tool, session, lo).session
                  /\ log' = log \cup {login_apikey_cmd, _redact_sensitive_args(logout_cmd)}
                  /\ \E reason \in FailureKinds :
                        call' = after_tool_failure(call, LOGIN_MAX_ATTEMPTS,
                                    "Bitwarden CLI login failed", reason)
    /\ UNCHANGED <<use_api_key, ncalls, written>>
    /\ UNCHANGED <<codecVars, retryVars, redactVars, pathVars, mainVars,
                   freshVars, configVars>>

\* One attempt of login in email/password mode: self.session = self._run(cmd).
LoginEmail ==
    /\ call.op = "login" /\ call.status = "running" /\ ~use_api_key
    /\ in_range(call.n, LOGIN_MAX_ATTEMPTS)
    /\ log' = log \cup {_redact_sensitive_args(login_email_cmd(call.email, master_pw))}
    /\ \E ok \in BOOLEAN :
          /\ ok => bw_login_possible(tool)
          /\ IF ok
             THEN \E tok \in Tokens :
                     /\ tool' = "Unlocked"
                     /\ session' = tok
                     /\ call' = after_success(call, tok)
             ELSE /\ UNCHANGED <<tool, session>>
                  /\ \E reason \in FailureKinds :
                        call' = after_tool_failure(call, LOGIN_MAX_ATTEMPTS,
                                    "Bitwarden CLI command failed", reason)
    /\ UNCHANGED <<use_api_key, ncalls, written>>
    /\ UNCHANGED <<codecVars, retryVars, redactVars, pathVars, mainVars,
                   freshVars, configVars>>

\* unlock(password): the retry wrapper is entered.
CallUnlock ==
    /\ CanCall
    /\ call' = Started("unlock")
    /\ ncalls' = ncalls + 1
    /\ UNCHANGED <<tool, session, use_api_key, log, written>>
    /\ UNCHANGED <<codecVars, retryVars, redactVars, pathVars, mainVars,
                   freshVars, configVars>>

\* One attempt of unlock: bw unlock <password> --raw, and after a failure
\* the clean-up logout (its own failure swallowed) and the raise.
Unlock ==
    /\ call.op = "unlock" /\ call.status = "running"
    /\ in_range(call.n, UNLOCK_MAX_ATTEMPTS)
    /\ \E ok \in BOOLEAN, lo \in BOOLEAN :
          /\ ok => bw_unlock_possible(tool) /\ ~lo
          /\ lo => bw_logout_possible(tool)
          /\ IF ok
             THEN \E tok \in Tokens :
                     /\ tool' = "Unlocked"
                     /\ session' = session_after_unlock(tok, session)
                     /\ log' = log
                     /\ call' = after_success(call, tok)
             ELSE /\ tool' = logout_result(tool, session, lo).tool
                  /\ session' = logout_result(tool, session, lo).session
                  /\ log' = log \cup {unlock_safe_cmd, _redact_sensitive_args(logout_cmd)}
                  /\ \E reason \in FailureKinds :
                        call' = after_tool_failure(call, UNLOCK_MAX_ATTEMPTS,
                                    "Bitwarden CLI unlock failed", reason)
    /\ UNCHANGED <<use_api_key, ncalls, written>>
    /\ UNCHANGED <<codecVars, retryVars, redactVars, pathVars, mainVars,
                   freshVars, configVars>>

\* str.strip(): white space taken off both ends.
is_space(ch) == ch \in {32, 9, 10, 13}

RECURSIVE lstrip(_)
lstrip(t) ==
    IF t # <<>> /\ is_space(t[1]) THEN lstrip(SubSeq(t, 2, Len(t))) ELSE t

RECURSIVE rstrip(_)
rstrip(t) ==
    IF t # <<>> /\ is_space(t[Len(t)]) THEN rstrip(SubSeq(t, 1, Len(t) - 1)) ELSE t

strip(t) == rstrip(lstrip(t))

\* json.loads(output) returns: output is an empty object or array, a
\* literal or a number (the documents the tool model prints).
json_loads_ok(output) ==
    \/ output \in { <<123, 125>>, <<91, 93>>, <<110, 117, 108, 108>>,
                    <<116, 114, 117, 101>>, <<102, 97, 108, 115, 101>> }
    \/ output # <<>> /\ \A i \in 1..Len(output) : output[i] \in 48..57

\* Mutant: a parse failure is reported with the message of a failed command.
parse_failure_as_tool_failure == "Bitwarden CLI command failed"

\* _run: raise BitwardenError("Failed to parse JSON output") from e
parse_failure == "Failed to parse JSON output"

\* _run: raise BitwardenError("Bitwarden CLI command failed") from e
tool_failure == "Bitwarden CLI command failed"

\* status: full_cmd of _run for cmd = ["status"]
status_cmd == <<"bw", "status">>

\* status(): _run(["status"]) with capture_json=True: a non-zero exit
\* raises the command error, an output json.loads refuses raises the parse
\* error.
client_status ==
    /\ log' = log \cup {_redact_sensitive_args(status_cmd)}
    /\ UNCHANGED <<tool, session, written>>
    /\ \/ call' = [Started("status") EXCEPT !.n = 1, !.status = "failed",
                                             !.stage = "command", !.msg = tool_failure]
       \/ \E out \in StatusOutputs :
             call' = IF json_loads_ok(strip(out))
                     THEN [Started("status") EXCEPT !.n = 1, !.status = "ok",
                                                    !.stage = "parse", !.stdout = out]
                     ELSE [Started("status") EXCEPT !.n = 1, !.status = "failed",
                                                    !.stage = "parse", !.msg = parse_failure,
                                                    !.stdout = out]

\* Mutant: the path as the caller gave it is used.
output_path_unvalidated(validated_path, bf) == bf

\* The path opened, or passed as --output: validated_path.
output_path(validated_path, bf) == validated_path

\* Mutant: the export string itself goes to the file.
written_bytes_plain(encrypted, raw) == raw

\* export_raw_encrypted: f.write(encrypted_data)
written_bytes(encrypted, raw) == encrypted

\* logout(): one bw logout; a failure raises BitwardenError from _run
\* before the assignment to self.session.
logout ==
    /\ \E ok \in BOOLEAN :
          /\ ok => bw_logout_possible(tool)
          /\ tool' = logout_result(tool, session, ok).tool
          /\ session' = logout_result(tool, session, ok).session
          /\ call' = [Started("logout") EXCEPT
                         !.n = 1,
                         !.status = IF ok THEN "ok" ELSE "failed",
                         !.msg = IF ok THEN "" ELSE "Bitwarden CLI command failed"]
    /\ log' = log \cup {_redact_sensitive_args(logout_cmd)}
    /\ written' = written

\* export_raw_encrypted(backup_file, file_pw): validate the path, run
\* bw export --format json --raw, encrypt the output, write the file. The
\* call gets as far as stage `till` and fails there, or is done.
export_raw_encrypted(bf) ==
    LET v == _validate_backup_path({}, bf, allowed_dir)
        c == [Started("export_raw") EXCEPT !.path = v, !.n = 1]
    IN /\ UNCHANGED <<tool, session>>
       /\ IF v.kind # "ok"
          THEN /\ call' = [c EXCEPT !.status = "failed", !.stage = "validate",
                                    !.msg = v.kind, !.n = 0]
               /\ UNCHANGED <<log, written, aead>>
          ELSE /\ log' = log \cup {_redact_sensitive_args(export_raw_cmd)}
               /\ \E till \in {"export", "encrypt", "write", "done"} :
                     /\ till # "export" => bw_export_possible(tool, session)
                     /\ IF till = "export"
                        THEN /\ call' = [c EXCEPT !.status = "failed", !.stage = "export",
                                                  !.msg = "Bitwarden CLI command failed"]
                             /\ UNCHANGED <<written, aead>>
                        ELSE IF till = "encrypt"
                        THEN /\ call' = [c EXCEPT !.status = "failed", !.stage = "encrypt",
                                                  !.msg = "HashingError"]
                             /\ UNCHANGED <<written, aead>>
                        ELSE \E sb \in RandomBytes, nb \in RandomBytes :
                                LET enc == encrypt_data(encode_utf8(raw_json_str),
                                              file_pw_chars, Fill(sb, SALT_SIZE),
                                              Fill(nb, NONCE_SIZE), sb)
                                IN /\ aead' = aead \cup {enc.entry}
                                   /\ IF till = "write"
                                      THEN /\ call' = [c EXCEPT !.status = "failed",
                                                                !.stage = "write",
                                                                !.msg = "OSError"]
                                           /\ written' = written
                                      ELSE /\ call' = [c EXCEPT !.status = "ok",
                                                                !.stage = "write"]
                                           /\ written' = written \cup
                                                 {[path |-> output_path(v.path, bf), by |-> "client",
                                                   data |-> written_bytes(enc.out,
                                                               encode_utf8(raw_json_str))]}

\* export_bitwarden_encrypted(backup_file, file_pw): validate the path and
\* run bw export --output <path> --format json --password <file_pw>; the
\* tool writes the file.
export_bitwarden_encrypted(bf) ==
    LET v == _validate_backup_path({}, bf, allowed_dir)
        c == [Started("export_bitwarden") EXCEPT !.path = v, !.n = 1]
    IN /\ UNCHANGED <<tool, session>>
       /\ IF v.kind # "ok"
          THEN /\ call' = [c EXCEPT !.status = "failed", !.stage = "validate",
                                    !.msg = v.kind, !.n = 0]
               /\ UNCHANGED <<log, written, aead>>
          ELSE /\ log' = log \cup
                     {_redact_sensitive_args(
                         export_bitwarden_cmd(output_path(v.path, bf), file_pw))}
               /\ aead' = aead
               /\ \E ok \in BOOLEAN :
                     /\ ok => bw_export_possible(tool, session)
                     /\ IF ~ok
                        THEN /\ call' = [c EXCEPT !.status = "failed", !.stage = "export",
                                                  !.msg = "Bitwarden CLI command failed"]
                             /\ written' = written
                        ELSE /\ call' = [c EXCEPT !.status = "ok", !.stage = "export"]
                             /\ written' = written \cup
                                   {[path |-> output_path(v.path, bf), by |-> "bw", data |-> <<>>]}

\* client.logout() / __exit__
Logout ==
    /\ CanCall
    /\ ncalls' = ncalls + 1
    /\ logout
    /\ UNCHANGED use_api_key
    /\ UNCHANGED <<codecVars, retryVars, redactVars, pathVars, mainVars,
                   freshVars, configVars>>

\* client.status()
Status ==
    /\ CanCall
    /\ ncalls' = ncalls + 1
    /\ client_status
    /\ UNCHANGED use_api_key
    /\ UNCHANGED <<codecVars, retryVars, redactVars, pathVars, mainVars,
                   freshVars, configVars>>

\* client.export_raw_encrypted(backup_file, file_pw)
ExportRaw ==
    /\ CanCall
    /\ ncalls' = ncalls + 1
    /\ \E bf \in ExportFiles : export_raw_encrypted(bf)
    /\ UNCHANGED use_api_key
    /\ UNCHANGED <<codecRest, retryVars, redactVars, pathVars, mainVars,
                   freshVars, configVars>>

\* client.export_bitwarden_encrypted(backup_file, file_pw)
ExportBitwarden ==
    /\ CanCall
    /\ ncalls' = ncalls + 1
    /\ \E bf \in ExportFiles : export_bitwarden_encrypted(bf)
    /\ UNCHANGED use_api_key
    /\ UNCHANGED <<codecRest, retryVars, redactVars, pathVars, mainVars,
                   freshVars, configVars>>

Next ==
    \/ CallLogin
    \/ LoginApiKey
    \/ LoginEmail
    \/ CallUnlock
    \/ Unlock
    \/ Logout
    \/ Status
    \/ ExportRaw
    \/ ExportBitwarden

Init ==
    CodecIdle /\ RetryIdle /\ RedactIdle /\ PathIdle /\ ClientStart /\ MainIdle
    /\ FreshIdle /\ ConfigIdle

Spec == Init /\ [][Next]_vars

\* ------------------------------------------------------------ run.py main
\* main after the client was constructed (use_api_key=True, no session
\* argument); the tool may have been left logged in by an earlier run.
RunStart ==
    /\ tool \in {"LoggedOut", "LoggedIn"}
    /\ session = None
    /\ use_api_key = TRUE
    /\ call = NoCall
    /\ ncalls = 0
    /\ log = {}
    /\ written = {}
    /\ mpc = "login"
    /\ encryption_mode \in {"raw", "bitwarden"}
    /\ steps = <<>>
    /\ failed_step = "none"
    /\ pending = "none"
    /\ exit_status = "running"
    /\ main_log = {}

\* backup_file = os.path.join(backup_dir, f"backup_{timestamp}.enc")
main_backup_file == <<c_app, c_bk, c_a_enc>>

\* Mutant: sys.exit(1) ends the run at once.
on_sys_exit_skips_finally == "ended"

\* sys.exit(1) inside the try block: SystemExit runs the finally block.
on_sys_exit == "finally"

\* Mutant: main goes on to the next step whatever the last one did.
next_after_ignoring_failure(step, status) ==
    CASE step = "login" -> "unlock"
      [] step = "unlock" -> "export"
      [] OTHER -> "finally"

\* Where main goes after a step: on after success, sys.exit(1) after an
\* exception.
next_after(step, status) ==
    IF status = "failed" THEN on_sys_exit
    ELSE CASE step = "login" -> "unlock"
           [] step = "unlock" -> "export"
           [] OTHER -> "finally"

\* except Exception: logger.error(...); sys.exit(1) raises SystemExit.
raised_by_step(status, was) == IF status = "failed" THEN "SystemExit" ELSE was

\* Mutant: the exception of a failed logout leaves the finally block.
after_finally_raising(was, logout_status) ==
    IF logout_status = "failed" THEN "BitwardenError"
    ELSE IF was = "SystemExit" THEN "SystemExit" ELSE "returned"

\* After the finally block, whose except Exception has swallowed a logout
\* error: the pending SystemExit goes on, or main returns.
after_finally(was, logout_status) ==
    IF was = "SystemExit" THEN "SystemExit" ELSE "returned"

\* The steps an export call has started, from the stage it reached.
steps_of_export(c) ==
    IF c.stage = "encrypt" THEN <<"export", "encrypt">>
    ELSE IF c.stage = "write" THEN <<"export", "encrypt", "write">>
    ELSE <<"export">>

\* source.login()
MainLogin ==
    /\ mpc = "login"
    /\ call' = Started("login")
    /\ steps' = Append(steps, "login")
    /\ mpc' = "in_login"
    /\ UNCHANGED <<tool, session, use_api_key, ncalls, log, written>>
    /\ UNCHANGED <<encryption_mode, failed_step, pending, exit_status, main_log>>
    /\ UNCHANGED <<codecVars, retryVars, redactVars, pathVars,
                   freshVars, configVars>>

\* login returned, or raised: except Exception, log, sys.exit(1).
MainLoginDone ==
    /\ mpc = "in_login"
    /\ call.status \in {"ok", "failed"}
    /\ mpc' = next_after("login", call.status)
    /\ failed_step' = IF call.status = "failed" THEN "login" ELSE failed_step
    /\ pending' = raised_by_step(call.status, pending)
    /\ main_log' = IF call.status = "failed"
                   THEN main_log \cup {"Login failed"} ELSE main_log
    /\ UNCHANGED <<encryption_mode, steps, exit_status>>
    /\ UNCHANGED <<codecVars, retryVars, redactVars, pathVars, clientVars,
                   freshVars, configVars>>

\* source.unlock(master_pw)
MainUnlock ==
    /\ mpc = "unlock"
    /\ call' = Started("unlock")
    /\ steps' = Append(steps, "unlock")
    /\ mpc' = "in_unlock"
    /\ UNCHANGED <<tool, session, use_api_key, ncalls, log, written>>
    /\ UNCHANGED <<encryption_mode, failed_step, pending, exit_status, main_log>>
    /\ UNCHANGED <<codecVars, retryVars, redactVars, pathVars,
                   freshVars, configVars>>

\* unlock returned, or raised: except Exception, log, sys.exit(1).
MainUnlockDone ==
    /\ mpc = "in_unlock"
    /\ call.status \in {"ok", "failed"}
    /\ mpc' = next_after("unlock", call.status)
    /\ failed_step' = IF call.status = "failed" THEN "unlock" ELSE failed_step
    /\ pending' = raised_by_step(call.status, pending)
    /\ main_log' = IF call.status = "failed"
                   THEN main_log \cup {"Unlock failed"} ELSE main_log
    /\ UNCHANGED <<encryption_mode, steps, exit_status>>
    /\ UNCHANGED <<codecVars, retryVars, redactVars, pathVars, clientVars,
                   freshVars, configVars>>

\* The export of the configured mode; an exception: log, sys.exit(1).
MainExport ==
    /\ mpc = "export"
    /\ IF encryption_mode = "raw"
       THEN export_raw_encrypted(main_backup_file)
       ELSE export_bitwarden_encrypted(main_backup_file)
    /\ steps' = steps \o steps_of_export(call')
    /\ failed_step' = IF call'.status = "failed" THEN call'.stage ELSE failed_step
    /\ mpc' = next_after("export", call'.status)
    /\ pending' = raised_by_step(call'.status, pending)
    /\ main_log' = main_log \cup {IF call'.status = "failed" THEN "Export failed"
                                  ELSE "Export completed successfully."}
    /\ UNCHANGED <<use_api_key, ncalls, encryption_mode, exit_status>>
    /\ UNCHANGED <<codecRest, retryVars, redactVars, pathVars,
                   freshVars, configVars>>

\* finally: source.logout(), its exception logged as a warning; the run
\* ends.
MainLogout ==
    /\ mpc = "finally"
    /\ logout
    /\ steps' = Append(steps, "logout")
    /\ mpc' = "ended"
    /\ main_log' = main_log \cup {IF call'.status = "failed"
                                  THEN "Logout encountered an error"
                                  ELSE "Successfully logged out."}
    /\ exit_status' = after_finally(pending, call'.status)
    /\ UNCHANGED <<use_api_key, ncalls, encryption_mode, failed_step, pending>>
    /\ UNCHANGED <<codecVars, retryVars, redactVars, pathVars,
                   freshVars, configVars>>

RunNext ==
    \/ MainLogin
    \/ LoginApiKey
    \/ MainLoginDone
    \/ MainUnlock
    \/ Unlock
    \/ MainUnlockDone
    \/ MainExport
    \/ MainLogout

RunInit ==
    CodecIdle /\ RetryIdle /\ RedactIdle /\ PathIdle /\ RunStart
    /\ FreshIdle /\ ConfigIdle

SpecRun == RunInit /\ [][RunNext]_vars

\* The run as the interpreter executes it: a single thread that takes its
\* next step whenever it has one.
SpecRunFair == RunInit /\ [][RunNext]_vars /\ WF_vars(RunNext)

\* ------------------------------------------- run.py main: configuration
c_backups == <<98, 97, 99, 107, 117, 112, 115>>
m_raw == <<114, 97, 119>>
m_bitwarden == <<98, 105, 116, 119, 97, 114, 100, 101, 110>>
m_zip == <<122, 105, 112>>

\* The variables main requires, in the order it reads them.
RequiredEnv ==
    <<"BW_CLIENT_ID", "BW_CLIENT_SECRET", "BW_PASSWORD", "BW_SERVER",
      "BW_FILE_PASSWORD">>

\* A variable of the environment: not set, or set to one of vals.
EnvVar(vals, none) ==
    {[set |-> FALSE, val |-> none]} \cup {[set |-> TRUE, val |-> v] : v \in vals}

\* BACKUP_DIR: /app/bk, /app, /etc, /app/../etc and the link /app/bk/ln.
BackupDirs ==
    { <<c_app, c_bk>>, <<c_app>>, <<c_etc>>, <<c_app, c_dotdot, c_etc>>,
      <<c_app, c_bk, c_ln>> }
\* BACKUP_ENCRYPTION_MODE: "raw", " RAW\n", "zip" and "".
ModeStrings == { m_raw, <<32, 82, 65, 87, 10>>, m_zip, <<>> }

Environs ==
    [BW_CLIENT_ID : EnvVar({"", "v"}, ""),
     BW_CLIENT_SECRET : EnvVar({"", "v"}, ""),
     BW_PASSWORD : EnvVar({"", "v"}, ""),
     BW_SERVER : EnvVar({"", "v"}, ""),
     BW_FILE_PASSWORD : EnvVar({"", "v"}, ""),
     BACKUP_DIR : EnvVar(BackupDirs, <<>>),
     BACKUP_ENCRYPTION_MODE : EnvVar(ModeStrings, <<>>),
     LOG_FILE : EnvVar({"", "/app/run.log"}, "")]

\* The symbolic links of the container: /app/bk/ln -> /etc.
fs_links == {[at |-> <<c_app, c_bk, c_ln>>, to |-> <<c_etc>>]}

\* os.getenv(name, default)
getenv(env, name, default) == IF env[name].set THEN env[name].val ELSE default

\* require_env: val = os.getenv(name); "if not val" raises RuntimeError.
require_env_ok(env, name) == env[name].set /\ env[name].val # ""

after_required(name) ==
    LET i == CHOOSE j \in 1..Len(RequiredEnv) : RequiredEnv[j] = name
    IN IF i < Len(RequiredEnv) THEN RequiredEnv[i + 1] ELSE "validate_backup_dir"

ALLOWED_BASE == <<c_app>>
default_backup_dir == <<c_app, c_backups>>

\* validate_backup_dir: the resolved path, accepted when relative_to the
\* resolved base does not raise.
validate_backup_dir(raw_dir) ==
    LET backup_path == resolve(fs_links, raw_dir)
        base == resolve(fs_links, ALLOWED_BASE)
    IN [ok |-> relative_to_ok(backup_path, base), path |-> backup_path]

ALLOWED_MODES == {m_raw, m_bitwarden}

\* str.lower() on code points: A..Z to a..z.
lower(t) == [i \in 1..Len(t) |-> IF t[i] \in 65..90 THEN t[i] + 32 ELSE t[i]]

\* encryption_mode = encryption_mode_raw.lower().strip()
mode_of(env) == strip(lower(getenv(env, "BACKUP_ENCRYPTION_MODE", m_bitwarden)))

\* Mutant: every mode string is let through.
mode_allowed_any(m) == TRUE

\* encryption_mode in ALLOWED_MODES
mode_allowed(m) == m \in ALLOWED_MODES

\* bw config server: exit 0, exit 1, another exit code, or no process.
ConfigOutcomes == {"exit0", "exit1", "exit2", "OSError"}

ConfigStart ==
    /\ kpc = RequiredEnv[1]
    /\ environ \in Environs
    /\ backup_dir = <<>>
    /\ invoked = {}
    /\ made = {}
    /\ run_status = "running"

\* client_id = require_env("BW_CLIENT_ID") ... file_pw = require_env(...)
RequireEnv ==
    /\ \E i \in 1..Len(RequiredEnv) : kpc = RequiredEnv[i]
    /\ IF require_env_ok(environ, kpc)
       THEN /\ kpc' = after_required(kpc)
            /\ run_status' = run_status
       ELSE /\ kpc' = "ended"
            /\ run_status' = "RuntimeError"
    /\ UNCHANGED <<environ, backup_dir, invoked, made>>
    /\ UNCHANGED <<codecVars, retryVars, redactVars, pathVars, clientVars,
                   mainVars, freshVars>>

\* backup_dir = validate_backup_dir(backup_dir_raw), sys.exit(1) outside.
ValidateBackupDir ==
    /\ kpc = "validate_backup_dir"
    /\ LET v == validate_backup_dir(getenv(environ, "BACKUP_DIR", default_backup_dir))
       IN IF v.ok
          THEN /\ backup_dir' = v.path
               /\ kpc' = "mode"
               /\ run_status' = run_status
          ELSE /\ backup_dir' = backup_dir
               /\ kpc' = "ended"
               /\ run_status' = "SystemExit"
    /\ UNCHANGED <<environ, invoked, made>>
    /\ UNCHANGED <<codecVars, retryVars, redactVars, pathVars, clientVars,
                   mainVars, freshVars>>

\* if encryption_mode not in ALLOWED_MODES: sys.exit(1)
CheckMode ==
    /\ kpc = "mode"
    /\ IF mode_allowed(mode_of(environ))
       THEN /\ kpc' = "log"
            /\ run_status' = run_status
       ELSE /\ kpc' = "ended"
            /\ run_status' = "SystemExit"
    /\ UNCHANGED <<environ, backup_dir, invoked, made>>
    /\ UNCHANGED <<codecVars, retryVars, redactVars, pathVars, clientVars,
                   mainVars, freshVars>>

\* if log_file: logger.addHandler(logging.FileHandler(log_file)); the
\* handler opens (creates) the file, or open raises.
AddLogHandler ==
    /\ kpc = "log"
    /\ LET log_file == getenv(environ, "LOG_FILE", "")
       IN IF log_file = ""
          THEN /\ made' = made
               /\ kpc' = "makedirs"
               /\ run_status' = run_status
          ELSE \/ /\ made' = made \cup {[kind |-> "log", path |-> log_file]}
                  /\ kpc' = "makedirs"
                  /\ run_status' = run_status
               \/ /\ made' = made
                  /\ kpc' = "ended"
                  /\ run_status' = "OSError"
    /\ UNCHANGED <<environ, backup_dir, invoked>>
    /\ UNCHANGED <<codecVars, retryVars, redactVars, pathVars, clientVars,
                   mainVars, freshVars>>

\* os.makedirs(backup_dir, mode=0o700, exist_ok=True), or it raises.
MakeDirs ==
    /\ kpc = "makedirs"
    /\ \/ /\ made' = made \cup {[kind |-> "dir", path |-> backup_dir]}
          /\ kpc' = "construct"
          /\ run_status' = run_status
       \/ /\ made' = made
          /\ kpc' = "ended"
          /\ run_status' = "OSError"
    /\ UNCHANGED <<environ, backup_dir, invoked>>
    /\ UNCHANGED <<codecVars, retryVars, redactVars, pathVars, clientVars,
                   mainVars, freshVars>>

\* source = BitwardenClient(bw_cmd="bw", server=server, ...): __init__ runs
\* bw config server; exit 1 is passed over, another exit code raises, and
\* any other exception runs logout and raises.
Construct ==
    /\ kpc = "construct"
    /\ \E o \in ConfigOutcomes :
          /\ invoked' = invoked
                 \cup {<<"bw", "config", "server", environ["BW_SERVER"].val>>}
                 \cup (IF o = "OSError" THEN {<<"bw", "logout">>} ELSE {})
          /\ kpc' = IF o \in {"exit0", "exit1"} THEN "constructed" ELSE "ended"
          /\ run_status' = IF o \in {"exit0", "exit1"} THEN run_status
                           ELSE "BitwardenError"
    /\ UNCHANGED <<environ, backup_dir, made>>
    /\ UNCHANGED <<codecVars, retryVars, redactVars, pathVars, clientVars,
                   mainVars, freshVars>>

ConfigNext ==
    \/ RequireEnv
    \/ ValidateBackupDir
    \/ CheckMode
    \/ AddLogHandler
    \/ MakeDirs
    \/ Construct

ConfigInit ==
    CodecIdle /\ RetryIdle /\ RedactIdle /\ PathIdle /\ ClientIdle /\ MainIdle
    /\ FreshIdle /\ ConfigStart

SpecConfig == ConfigInit /\ [][ConfigNext]_vars

\* ------------------------------------------------ encrypt_data, repeated
\* os.urandom(n) as an ideal source: n bytes it has not returned before.
urandom(n, returned) == { Fill(b, n) : b \in RandomBytes } \ returned

\* Mutant: the salt of the call before is used again.
salt_reused(drawn, before) ==
    IF before = <<>> THEN drawn ELSE salt_of(before[Len(before)])

\* encrypt_data: salt = os.urandom(SALT_SIZE), drawn in every call.
salt_drawn(drawn, before) == drawn

FreshStart ==
    /\ cpc = "idle"
    /\ plain \in SeqsUpTo(PlainBytes, MaxPlainLen)
    /\ encPw \in Passwords
    /\ decPw = <<>>
    /\ encrypted_data = <<>>
    /\ built = "none"
    /\ salt0 = <<>>
    /\ nonce0 = <<>>
    /\ change = NoChange
    /\ aead = {}
    /\ result = NoResult
    /\ outs = <<>>
    /\ used = {}

\* client.encrypt_data(data, password), the first call or the one after it.
EncryptAgain ==
    /\ Len(outs) < 2
    /\ \E s \in urandom(SALT_SIZE, used), n \in urandom(NONCE_SIZE, used),
          pad \in RandomBytes :
          LET e == encrypt_data(plain, encPw, salt_drawn(s, outs), n, pad)
          IN /\ outs' = Append(outs, e.out)
             /\ aead' = aead \cup {e.entry}
             /\ used' = used \cup {s, n}
    /\ UNCHANGED codecRest
    /\ UNCHANGED <<retryVars, redactVars, pathVars, clientVars, mainVars,
                   configVars>>

FreshNext == EncryptAgain

FreshInit ==
    FreshStart /\ RetryIdle /\ RedactIdle /\ PathIdle /\ ClientIdle /\ MainIdle
    /\ ConfigIdle

SpecFresh == FreshInit /\ [][FreshNext]_vars

\* ------------------------------------------------------------ path claims
\* The candidate and the base in canonical form.
CanonFile == resolve(links, backup_file)
CanonBase == resolve(links, allowed_base)

\* The canonical candidate lies strictly below the canonical base.
Descendant ==
    /\ Len(CanonFile) > Len(CanonBase)
    /\ \A i \in 1..Len(CanonBase) : CanonFile[i] = CanonBase[i]

\* The canonical candidate is the canonical base or lies below it.
BaseOrDescendant ==
    /\ Len(CanonFile) >= Len(CanonBase)
    /\ \A i \in 1..Len(CanonBase) : CanonFile[i] = CanonBase[i]

\* C12 (as claimed): validation succeeds only if the canonical candidate is
\* a descendant of the canonical base; a candidate that resolves outside
\* the base is rejected with the invalid-path error, whatever its file name.
C12_PathSandboxStrict ==
    vpc = "done" =>
        /\ vres.kind = "ok" => Descendant
        /\ ~BaseOrDescendant => vres.kind = "InvalidBackupPath"

\* C12 (amended): validation succeeds only if the canonical candidate is
\* the canonical base itself or a descendant of it; a candidate that
\* resolves to neither is rejected with the invalid-path error, whatever
\* its file name (the path check is decided before the file name checks).
C12_PathSandbox ==
    vpc = "done" =>
        /\ vres.kind = "ok" => BaseOrDescendant
        /\ ~BaseOrDescendant => vres.kind = "InvalidBackupPath"
        /\ vres.kind \in {"InvalidFilenameChars", "InvalidFilenameExt"} =>
              BaseOrDescendant

\* /app/../etc/a.enc under /app/bk is rejected as outside the base,
\* though its file name is a valid one.
C12_Witness ==
    /\ vpc = "done"
    /\ backup_file = <<c_app, c_dotdot, c_etc, c_a_enc>>
    /\ allowed_base = <<c_app, c_bk>>
    /\ vres.kind = "InvalidBackupPath"

\* The last component of the canonical candidate.
CanonName == IF CanonFile = <<>> THEN <<>> ELSE CanonFile[Len(CanonFile)]

\* Every character of the name is a letter, a digit, '.', '_' or '-'.
OnlySafeChars ==
    \A i \in 1..Len(CanonName) :
        \/ CanonName[i] >= 97 /\ CanonName[i] <= 122
        \/ CanonName[i] >= 65 /\ CanonName[i] <= 90
        \/ CanonName[i] >= 48 /\ CanonName[i] <= 57
        \/ CanonName[i] = 46
        \/ CanonName[i] = 95
        \/ CanonName[i] = 45

\* The name ends with ".enc".
EndsEnc ==
    /\ Len(CanonName) >= 4
    /\ CanonName[Len(CanonName) - 3] = 46
    /\ CanonName[Len(CanonName) - 2] = 101
    /\ CanonName[Len(CanonName) - 1] = 110
    /\ CanonName[Len(CanonName)] = 99

\* C13: for a candidate inside the allowed base, validation returns the
\* canonical path exactly when the final component consists only of
\* [A-Za-z0-9._-] and ends with ".enc", and fails with an invalid-filename
\* error otherwise; it creates and opens no file.
C13_FilenameGrammar ==
    (vpc = "done" /\ BaseOrDescendant) =>
        /\ vres.kind = "ok" <=> (OnlySafeChars /\ EndsEnc)
        /\ vres.kind = "ok" => vres.path = CanonFile
        /\ vres.kind # "ok" =>
              vres.kind \in {"InvalidFilenameChars", "InvalidFilenameExt"}
        /\ created = {}

\* /../app/bk/a.enc is accepted as /app/bk/a.enc.
C13_Witness ==
    /\ vpc = "done"
    /\ allowed_base = <<c_app, c_bk>>
    /\ backup_file = <<c_dotdot, c_app, c_bk, c_a_enc>>
    /\ vres.kind = "ok"
    /\ vres.path = <<c_app, c_bk, c_a_enc>>


Finished(o) == call.op = o /\ call.status \in {"ok", "failed"}

\* C11: no command line written to the log and no raised error message
\* contains the master password, the file-encryption password, the API
\* client secret or a session token; an unlock command line is logged only
\* with the marker in place of the password.
C11_NoSecretLogged ==
    /\ \A line \in log : \A i \in 1..Len(line) : line[i] \notin Secrets
    /\ call.msg \notin Secrets
    /\ \A line \in log :
          (Len(line) >= 2 /\ line[2] = "unlock") => line[3] = REDACTED

\* C15: once a logout() call has finished, whether the tool's logout
\* command succeeded or failed, the token is None and the session is
\* LoggedOut.
C15_LogoutAlwaysClears ==
    Finished("logout") => (session = None /\ tool = "LoggedOut")

C18_ExportOnlyWhenUnlocked ==
    (Finished("export_raw") \/ Finished("export_bitwarden")) =>
        /\ call.stage \in {"export", "encrypt", "write"} => call.pre_tool = "Unlocked"
        /\ call.pre_tool # "Unlocked" =>
              (call.status = "failed" /\ call.stage = "validate")

\* ------------------------------------------------------------- run claims
\* The order of the steps of a run before its logout.
FullOrder == <<"login", "unlock", "export", "encrypt", "write">>

\* The steps started so far, the closing logout left out.
Body ==
    IF steps # <<>> /\ steps[Len(steps)] = "logout"
    THEN SubSeq(steps, 1, Len(steps) - 1)
    ELSE steps

\* C19: the steps of a run are started in the order login, unlock, export,
\* encrypt, write, logout, each only after the one before it succeeded;
\* once a step has failed no step other than logout is started; a backup
\* file is written only in a run whose export and encryption succeeded.
C19_StepOrder ==
    /\ Len(Body) <= Len(FullOrder)
    /\ \A i \in 1..Len(Body) : Body[i] = FullOrder[i]
    /\ failed_step # "none" => (Body # <<>> /\ Body[Len(Body)] = failed_step)
    /\ written # {} =>
          /\ failed_step = "none"
          /\ \E i \in 1..Len(steps) : steps[i] = "export"
          /\ encryption_mode = "raw" => \E i \in 1..Len(steps) : steps[i] = "write"

\* A run whose unlock failed goes from login and unlock straight to logout.
C19_Witness ==
    /\ mpc = "ended"
    /\ failed_step = "unlock"
    /\ steps = <<"login", "unlock", "logout">>

\* C20: every run in which the client was constructed comes to its end
\* with logout invoked by main exactly once, as its last step, whichever
\* of login, unlock and export failed.
C20_LogoutEventually ==
    <>(/\ mpc = "ended"
       /\ steps # <<>>
       /\ steps[Len(steps)] = "logout"
       /\ Cardinality({i \in 1..Len(steps) : steps[i] = "logout"}) = 1)

\* A run whose login failed has ended with its one logout.
C20_Witness ==
    /\ mpc = "ended"
    /\ failed_step = "login"
    /\ steps = <<"login", "logout">>

\* ------------------------------------------------- retry wrapper, again
\* The invocations before the last one all raised BitwardenError.
EarlierFailed == \A i \in 1..(Len(calls) - 1) : calls[i] = "BitwardenError"

\* C27: when the operation first succeeds on attempt k the wrapper returns
\* that attempt's value after exactly k invocations and k-1 sleeps; when
\* every attempt fails there are exactly max_attempts-1 sleeps; no sleep
\* follows the final attempt.
C27_StopsAtFirstSuccess ==
    /\ rpc = "returned" =>
          /\ Len(calls) >= 1
          /\ Len(calls) <= max_attempts
          /\ calls[Len(calls)] = "ok"
          /\ EarlierFailed
          /\ outcome = [kind |-> "return", id |-> Len(calls)]
          /\ Len(sleeps) = Len(calls) - 1
    /\ (rpc = "raised" /\ max_attempts >= 1 /\ AllFailed) =>
          Len(sleeps) = max_attempts - 1
    /\ (rpc # "loop" /\ calls # <<>>) => Len(sleeps) = Len(calls) - 1

\* The third of five attempts returned, after two sleeps.
C27_Witness ==
    /\ rpc = "returned"
    /\ max_attempts = 5
    /\ calls = <<"BitwardenError", "BitwardenError", "ok">>
    /\ Len(sleeps) = 2

\* An invocation has raised an error that is no BitwardenError.
OtherRaised == calls # <<>> /\ calls[Len(calls)] = "OtherError"

\* C28 (as claimed): when the operation raises an error that is no
\* BitwardenError, that error leaves the wrapper after exactly one
\* invocation and no sleep.
C28_OtherErrorOnceStrict ==
    OtherRaised =>
        /\ rpc = "raised"
        /\ outcome = [kind |-> "OtherError", id |-> 1]
        /\ Len(calls) = 1
        /\ sleeps = <<>>

\* C28 (amended): when an invocation raises an error that is no
\* BitwardenError, that very error leaves the wrapper at once, with no
\* further attempt and no sleep after it; the invocations are exactly one
\* when the first attempt raised it.
C28_OtherErrorBypasses ==
    OtherRaised =>
        /\ rpc = "raised"
        /\ outcome = [kind |-> "OtherError", id |-> Len(calls)]
        /\ EarlierFailed
        /\ Len(sleeps) = Len(calls) - 1
        /\ Len(calls) <= max_attempts

\* The second attempt raised the other error, after one sleep.
C28_Witness ==
    /\ rpc = "raised"
    /\ calls = <<"BitwardenError", "OtherError">>
    /\ Len(sleeps) = 1
    /\ outcome = [kind |-> "OtherError", id |-> 2]

\* -------------------------------------------------------- export claims
\* The exported vault contents as bytes.
ExportBytes == encode_utf8(raw_json_str)

\* The bytes p occur in d, one after the other.
Occurs(p, d) ==
    \E k \in 0..(Len(d) - Len(p)) : \A i \in 1..Len(p) : d[k + i] = p[i]

\* C24: every backup file the program itself has written holds an envelope
\* of encrypt_data over the exported contents (it decrypts to them under
\* the file password and is 48 bytes longer), never the export string; a
\* call that failed, between export and write included, has written
\* nothing.
C24_PlaintextNeverWritten ==
    /\ \A w \in written :
          w.by = "client" =>
              /\ w.data # ExportBytes
              /\ ~Occurs(ExportBytes, w.data)
              /\ Len(w.data) = Len(ExportBytes) + 48
              /\ decrypt_data(aead, w.data, file_pw_chars).kind = "ok"
              /\ decrypt_data(aead, w.data, file_pw_chars).data = ExportBytes
    /\ (Finished("export_raw") /\ call.status = "failed" /\ ncalls = 1) =>
          written = {}

\* A raw export has written its file.
C24_Witness ==
    /\ Finished("export_raw") /\ call.status = "ok"
    /\ \E w \in written : w.by = "client" /\ w.path = <<c_app, c_bk, c_a_enc>>

\* C29: in both export methods a path that fails validation ends the call
\* before the export command is run, before encrypt_data is called and
\* before any file is written; after a validation that succeeded the file
\* written, or named after --output, is the validated canonical path.
C29_ValidationGatesExport ==
    ((Finished("export_raw") \/ Finished("export_bitwarden")) /\ ncalls = 1) =>
        /\ call.stage = "validate" <=> call.path.kind # "ok"
        /\ call.stage = "validate" =>
              /\ call.status = "failed"
              /\ call.n = 0
              /\ log = {}
              /\ written = {}
              /\ aead = {}
        /\ \A w \in written :
              /\ call.path.kind = "ok"
              /\ w.path = call.path.path
              /\ w.path = <<c_app, c_bk, c_a_enc>>
        /\ \A line \in log : \A i \in 1..(Len(line) - 1) :
              line[i] = "--output" => line[i + 1] = "/app/bk/a.enc"

\* An export to /app/../etc/a.enc was refused at the validation.
C29_Witness ==
    /\ Finished("export_raw") /\ ncalls = 1
    /\ call.stage = "validate"
    /\ call.msg = "InvalidBackupPath"
    /\ log = {}

\* C21: a run ends with the failure exit exactly when login, unlock or
\* export failed and returns normally otherwise, whether the final logout
\* succeeded or failed; a failed logout is logged as a warning and its
\* error does not leave main.
C21_LogoutNeverMasks ==
    mpc = "ended" =>
        /\ exit_status \in {"SystemExit", "returned"}
        /\ exit_status = "SystemExit" <=> failed_step # "none"
        /\ (call.op = "logout" /\ call.status = "failed") =>
              "Logout encountered an error" \in main_log

\* A run whose export succeeded and whose logout failed has returned
\* normally.
C21_Witness ==
    /\ mpc = "ended"
    /\ failed_step = "none"
    /\ call.op = "logout" /\ call.status = "failed"
    /\ exit_status = "returned"
    /\ written # {}

\* C26: every unlock invocation made by unlock(), the first attempt and
\* each retry, is issued while the session is LoggedIn.
C26_UnlockOnlyLoggedIn == [][Unlock => tool = "LoggedIn"]_vars

\* C23: login and unlock are attempted again only after a transient
\* failure of the tool; after a rejection the call fails at once, with no
\* further attempt and no sleep.
C23_RetryOnlyTransient ==
    (call.op \in {"login", "unlock"} /\ call.why = "rejected") =>
        /\ call.status = "failed"
        /\ Len(call.slept) = call.n - 1

\* C22: a command run with JSON parsing requested fails with the command
\* error when the tool exits non-zero and with the parse error when it
\* exits zero with an output that is not JSON; the two errors differ.
C22_DistinctFailureKinds ==
    Finished("status") =>
        /\ (call.status = "failed" /\ call.stage = "command") =>
              call.msg = "Bitwarden CLI command failed"
        /\ (call.status = "failed" /\ call.stage = "parse") =>
              /\ call.msg = "Failed to parse JSON output"
              /\ call.msg # tool_failure
              /\ strip(call.stdout) # <<123, 125>>
        /\ call.status = "ok" =>
              strip(call.stdout) = <<123, 125>>

\* bw status exited 0 and printed "{": the parse error.
C22_Witness ==
    /\ Finished("status") /\ call.status = "failed"
    /\ call.stage = "parse"
    /\ call.stdout = <<123>>
    /\ call.msg = "Failed to parse JSON output"

\* C25: two successive encrypt_data calls on one plaintext and password
\* give different salts, different nonces and different outputs, and both
\* outputs decrypt to the plaintext.
C25_FreshRandomness ==
    Len(outs) = 2 =>
        /\ salt_of(outs[1]) # salt_of(outs[2])
        /\ nonce_of(outs[1]) # nonce_of(outs[2])
        /\ outs[1] # outs[2]
        /\ \A i \in 1..2 :
              /\ decrypt_data(aead, outs[i], encPw).kind = "ok"
              /\ decrypt_data(aead, outs[i], encPw).data = plain

\* Two envelopes of the one-byte plaintext 255 under the empty password.
C25_Witness ==
    /\ Len(outs) = 2
    /\ plain = <<255>>
    /\ encPw = <<>>
    /\ decrypt_data(aead, outs[2], encPw).data = <<255>>

\* C30: with an invalid configuration (a required variable missing or
\* empty, a backup directory that resolves outside /app, or a mode that is
\* not raw or bitwarden after lower-casing and trimming) main never gets as
\* far as the log handler, the backup directory or the client: no tool
\* command has been invoked, nothing has been created, and the run can
\* only have ended with RuntimeError or sys.exit(1).
MissingRequired ==
    \E i \in 1..Len(RequiredEnv) :
        ~environ[RequiredEnv[i]].set \/ environ[RequiredEnv[i]].val = ""

DirOutside ==
    LET d == resolve(fs_links, IF environ.BACKUP_DIR.set
                               THEN environ.BACKUP_DIR.val
                               ELSE <<c_app, c_backups>>)
    IN ~(Len(d) >= 1 /\ d[1] = c_app)

ModeInvalid ==
    LET m == IF environ.BACKUP_ENCRYPTION_MODE.set
             THEN strip(lower(environ.BACKUP_ENCRYPTION_MODE.val))
             ELSE m_bitwarden
    IN m \notin {m_raw, m_bitwarden}

InvalidConfiguration == MissingRequired \/ DirOutside \/ ModeInvalid

C30_InvalidConfigStopsEarly ==
    (kpc # "idle" /\ InvalidConfiguration) =>
        /\ invoked = {}
        /\ made = {}
        /\ kpc \notin {"log", "makedirs", "construct", "constructed"}
        /\ kpc = "ended" => run_status \in {"RuntimeError", "SystemExit"}

\* Every required variable is set and the directory is /app/bk, the mode
\* is "zip", and main has ended.
C30_Witness ==
    /\ kpc = "ended"
    /\ ~MissingRequired
    /\ ~DirOutside
    /\ environ.BACKUP_ENCRYPTION_MODE = [set |-> TRUE, val |-> m_zip]
    /\ run_status = "SystemExit"

=============================================================================
